---- MODULE Spec2Model ----
(***************************************************************************)
(* Model of sequential/utils.py of seq2pat: the pattern aggregator         *)
(* (list_to_counter, counter_to_list, aggregate_patterns, sort_pattern),   *)
(* the minimum-frequency validation and adjustment for batches, and        *)
(* shuffle_data.                                                           *)
(*                                                                         *)
(* A pattern row is a Python list  items + [count] : a sequence of         *)
(* integers whose last element is the count.  A collections.Counter (a     *)
(* dict) is a sequence of <<key, value>> pairs in insertion order, which   *)
(* is the order in which Python iterates over it.  A float is an exact     *)
(* rational [num, den] with den > 0.                                       *)
(***************************************************************************)
EXTENDS Integers, Sequences, FiniteSets, TLC

\* ------------------------------------------------------------- bounds
MaxRows == 3          \* rows handed to sort_pattern / rows over all chunks
MaxCount == 1         \* largest count a row carries
MaxChunks == 2        \* chunk results handed to aggregate_patterns
MaxMinRowCount == 2   \* largest min_row_count handed to aggregate_patterns
MaxNumRows == 5       \* largest num_rows / batch_size handed to the validators
Denom == 8            \* float arguments are the multiples of 1/Denom
MaxSeqs == 3          \* sequences handed to shuffle_data
MaxData == 3          \* sequences of the dataset mined in chunks

\* Item prefixes (pattern keys) the rows are built from, listed and as a set.
PatternList == <<<<1>>, <<1, 2>>, <<2>>, <<2, 1>>>>
PatternKeys == {PatternList[i] : i \in 1..Len(PatternList)}

Rows == {k \o <<c>> : k \in PatternKeys, c \in 0..MaxCount}

\* Item prefixes the chunk results handed to aggregate_patterns are built from.
ChunkKeys == {<<1>>, <<1, 2>>}

ChunkRows == {k \o <<c>> : k \in ChunkKeys, c \in 0..MaxCount}

VARIABLES
  patterns,        \* sort_pattern: the argument
  sorted_out,      \* sort_pattern: the returned list
  sort_pc,         \* "input" while the argument is built, "done" after the call
  batch_patterns,  \* aggregate_patterns: the list of chunk results
  min_row_count,   \* aggregate_patterns: the threshold
  chunk_counters,  \* aggregate_patterns: list_to_counter of every chunk result
  aggregated,      \* aggregate_patterns: the returned list
  agg_pc,          \* "input" while the argument is built, "done" after the call
  th_op,           \* the threshold function called last ("none" before any call)
  th_args,         \* its arguments
  th_out,          \* what it returned or raised
  sequences,       \* shuffle_data: the caller's list of sequences
  attr_to_cs,      \* shuffle_data: the caller's mapping attr -> cs -> constraint (an object id)
  constraints,     \* the heap of constraint objects: id -> [attribute |-> attribute id]
  attributes,      \* the heap of attribute objects: id -> [values |-> list]
  sh_before,       \* what the caller's objects held when shuffle_data was called
  sh_ret,          \* shuffle_data: what it returned
  sh_pc,           \* "input" before the call, "done" after it
  bt_data,         \* chunked mining: the dataset, a list of sequences
  bt_in,           \* its inputs: chunk sizes, global threshold t, factor f, row count N
  bt_local,        \* the local threshold of every chunk
  bt_results,      \* the rows the engine returned for every chunk
  bt_out,          \* aggregate_patterns(bt_results, N)
  bt_full,         \* the rows the engine returns for the whole dataset at N
  bt_pc            \* "input" while the dataset is built, "done" after the run

sortVars == <<patterns, sorted_out, sort_pc>>
aggVars == <<batch_patterns, min_row_count, chunk_counters, aggregated, agg_pc>>
thVars == <<th_op, th_args, th_out>>
shVars == <<sequences, attr_to_cs, constraints, attributes, sh_before, sh_ret, sh_pc>>
btVars == <<bt_data, bt_in, bt_local, bt_results, bt_out, bt_full, bt_pc>>
vars == <<sortVars, aggVars, thVars, shVars, btVars>>

\* The variables of the functions a specification does not call.
SortIdle == patterns = <<>> /\ sorted_out = <<>> /\ sort_pc = "idle"
AggIdle ==
  /\ batch_patterns = <<>>
  /\ min_row_count = 0
  /\ chunk_counters = <<>>
  /\ aggregated = <<>>
  /\ agg_pc = "idle"
ThIdle == th_op = "none" /\ th_args = <<>> /\ th_out = <<>>
ShIdle ==
  /\ sequences = <<>>
  /\ attr_to_cs = <<>>
  /\ constraints = <<>>
  /\ attributes = <<>>
  /\ sh_before = <<>>
  /\ sh_ret = <<>>
  /\ sh_pc = "idle"
BtIdle ==
  /\ bt_data = <<>>
  /\ bt_in = <<>>
  /\ bt_local = <<>>
  /\ bt_results = <<>>
  /\ bt_out = <<>>
  /\ bt_full = <<>>
  /\ bt_pc = "idle"

\* ------------------------------------------------ Python list helpers

\* x[:-1]
prefix(x) == SubSeq(x, 1, Len(x) - 1)

\* x[-1]
last(x) == x[Len(x)]

\* a < b for two Python lists (or tuples) of integers
ListLess(a, b) ==
  \E i \in 1..(Len(a) + 1) :
    /\ i <= Len(b)
    /\ \A j \in 1..(i - 1) : a[j] = b[j]
    /\ (i = Len(a) + 1 \/ a[i] < b[i])

\* sorted(xs, key=lambda x: x[:-1]) : stable, ascending by item prefix
sorted_by_prefix(xs) ==
  LET n == Len(xs)
      rank(i) == Cardinality({j \in 1..n :
                    \/ ListLess(prefix(xs[j]), prefix(xs[i]))
                    \/ (prefix(xs[j]) = prefix(xs[i]) /\ j < i)}) + 1
  IN [k \in 1..n |-> xs[CHOOSE i \in 1..n : rank(i) = k]]

\* sorted(xs, key=lambda x: x[-1], reverse=True) : stable, descending by count
sorted_by_count_reverse(xs) ==
  LET n == Len(xs)
      rank(i) == Cardinality({j \in 1..n :
                    \/ last(xs[j]) > last(xs[i])
                    \/ (last(xs[j]) = last(xs[i]) /\ j < i)}) + 1
  IN [k \in 1..n |-> xs[CHOOSE i \in 1..n : rank(i) = k]]

sort_pattern_prefix_only(ps) == sorted_by_prefix(ps)

sort_pattern(ps) == sorted_by_count_reverse(sorted_by_prefix(ps))

\* ------------------------------------------------ collections.Counter

\* key in d
HasKey(d, k) == \E i \in 1..Len(d) : d[i][1] = k

\* d.get(k, 0)
CounterGet(d, k) ==
  IF HasKey(d, k) THEN d[CHOOSE i \in 1..Len(d) : d[i][1] = k][2] ELSE 0

\* d[k] = v : a present key keeps its place, a new key goes last
DictSet(d, k, v) ==
  IF HasKey(d, k)
  THEN [i \in 1..Len(d) |-> IF d[i][1] = k THEN <<k, v>> ELSE d[i]]
  ELSE Append(d, <<k, v>>)

\* Counter(dict(zip(patterns_without_frequency, frequencies)))
list_to_counter(ps) ==
  LET f[i \in 0..Len(ps)] ==
        IF i = 0 THEN <<>>
        ELSE DictSet(f[i - 1], prefix(ps[i]), last(ps[i]))
  IN f[Len(ps)]

\* Counter.update with the other counter's value replacing the present one
CounterUpdate_overwrite(c, other) ==
  LET f[i \in 0..Len(other)] ==
        IF i = 0 THEN c
        ELSE DictSet(f[i - 1], other[i][1], other[i][2])
  IN f[Len(other)]

\* counter.update(other) : self[elem] = count + self.get(elem, 0)
CounterUpdate(c, other) ==
  LET f[i \in 0..Len(other)] ==
        IF i = 0 THEN c
        ELSE DictSet(f[i - 1], other[i][1],
                     other[i][2] + CounterGet(f[i - 1], other[i][1]))
  IN f[Len(other)]

\* counter_to_list without the threshold
counter_to_list_unfiltered(counter, m) ==
  sort_pattern([i \in 1..Len(counter) |-> counter[i][1] \o <<counter[i][2]>>])

counter_to_list(counter, m) ==
  LET Kept(e) == ~(e[2] < m)
      kept == SelectSeq(counter, Kept)
  IN sort_pattern([i \in 1..Len(kept) |-> kept[i][1] \o <<kept[i][2]>>])

\* The counter aggregate_patterns holds after its loop.
merged_counter(batch) ==
  LET f[i \in 0..Len(batch)] ==
        IF i = 0 THEN <<>>
        ELSE CounterUpdate(f[i - 1], list_to_counter(batch[i]))
  IN f[Len(batch)]

aggregate_patterns(batch, m) ==
  sort_pattern(counter_to_list(merged_counter(batch), m))

\* ------------------------------------------------ numbers

\* A Python number: an int (den = 1), a float (the rational num/den), or a
\* value that is neither (None).
PyInt(k) == [type |-> "int", num |-> k, den |-> 1]
PyFloat(n, d) == [type |-> "float", num |-> n, den |-> d]
NoneValue == [type |-> "none", num |-> 0, den |-> 1]

\* a >= b, a > b, a = b by value
NumGeq(a, b) == a.num * b.den >= b.num * a.den
NumGt(a, b) == a.num * b.den > b.num * a.den
NumEq(a, b) == a.num * b.den = b.num * a.den

\* a * b as a float
NumTimes(a, b) == PyFloat(a.num * b.num, a.den * b.den)

\* math.ceil(a)
Ceil(a) == PyInt(-((-a.num) \div a.den))

\* max(a, b) : Python keeps a unless b > a
PyMax(a, b) == IF NumGt(b, a) THEN b ELSE a

\* ------------------------------------------------ minimum frequency

\* validate_min_frequency: "ok", or the exception raised
validate_min_frequency(num_rows, min_frequency) ==
  IF min_frequency.type = "float"
  THEN IF ~NumGt(min_frequency, PyFloat(0, 1)) THEN "ValueError"
       ELSE IF ~NumGeq(PyFloat(1, 1), min_frequency) THEN "ValueError"
       ELSE IF ~NumGeq(NumTimes(min_frequency, PyInt(num_rows)), PyFloat(1, 1))
            THEN "ValueError"
       ELSE "ok"
  ELSE IF min_frequency.type = "int"
  THEN IF ~(0 < min_frequency.num) THEN "ValueError"
       ELSE IF ~(min_frequency.num <= num_rows) THEN "ValueError"
       ELSE "ok"
  ELSE "TypeError"

Returned == [kind |-> "ok", chunk |-> 0]
\* An exception; chunk is the chunk size its message names (0: none).
Raised(kind, chunk) == [kind |-> kind, chunk |-> chunk]

\* validate_min_frequency_with_batch that never validates the remainder chunk
validate_min_frequency_with_batch_no_remainder(num_rows, batch_size, min_frequency) ==
  IF min_frequency.type # "float" /\ num_rows > batch_size
  THEN Raised("TypeError", 0)
  ELSE IF validate_min_frequency(batch_size, min_frequency) = "ValueError"
  THEN Raised("ValueError", batch_size)
  ELSE IF validate_min_frequency(batch_size, min_frequency) = "TypeError"
  THEN Raised("TypeError", 0)
  ELSE Returned

validate_min_frequency_with_batch(num_rows, batch_size, min_frequency) ==
  LET remain_chunk_size == num_rows % batch_size
  IN IF min_frequency.type # "float" /\ num_rows > batch_size
     THEN Raised("TypeError", 0)
     ELSE IF validate_min_frequency(batch_size, min_frequency) = "ValueError"
     THEN Raised("ValueError", batch_size)
     ELSE IF validate_min_frequency(batch_size, min_frequency) = "TypeError"
     THEN Raised("TypeError", 0)
     ELSE IF remain_chunk_size > 1
             /\ validate_min_frequency(remain_chunk_size, min_frequency)
                  = "ValueError"
     THEN Raised("ValueError", remain_chunk_size)
     ELSE Returned

\* update_min_frequency without the floor of one row
update_min_frequency_no_floor(num_rows, min_frequency, min_frequency_lb) ==
  IF min_frequency.type = "float"
  THEN IF num_rows = 1 THEN Ceil(min_frequency)
       ELSE NumTimes(min_frequency, min_frequency_lb)
  ELSE min_frequency

\* update_min_frequency with the factor left out
update_min_frequency_no_factor(num_rows, min_frequency, min_frequency_lb) ==
  IF min_frequency.type = "float"
  THEN IF num_rows = 1 THEN Ceil(min_frequency)
       ELSE PyMax(min_frequency, PyFloat(1, num_rows))
  ELSE min_frequency

\* update_min_frequency rounding up whatever num_rows is
update_min_frequency_always_ceil(num_rows, min_frequency, min_frequency_lb) ==
  IF min_frequency.type = "float" THEN Ceil(min_frequency) ELSE min_frequency

update_min_frequency(num_rows, min_frequency, min_frequency_lb) ==
  IF min_frequency.type = "float"
  THEN IF num_rows = 1 THEN Ceil(min_frequency)
       ELSE PyMax(NumTimes(min_frequency, min_frequency_lb), PyFloat(1, num_rows))
  ELSE min_frequency

\* ------------------------------------------------ shuffle_data

\* The permutations of 1..n (Python's indices 0..n-1, counted from 1).
IndexPermutations(n) ==
  {q \in [1..n -> 1..n] : \A i, j \in 1..n : q[i] = q[j] => i = j}

\* [sequences[i] for i in indices]
shuffled_sequences(seqs, indices) ==
  [k \in 1..Len(indices) |-> seqs[indices[k]]]

\* the values left in their old order
shuffled_values_not_reordered(values, indices) == values

\* [old_constraint.attribute.values[i] for i in indices]
shuffled_values(values, indices) ==
  [k \in 1..Len(indices) |-> values[indices[k]]]

\* attribute.set_values(values) : the attribute's value list is replaced
set_values(attribute, values) == [attribute EXCEPT !.values = values]

\* The (attr, cs) pairs of a mapping attr -> cs -> constraint.
Slots(m) == UNION {{<<a, c>> : c \in DOMAIN m[a]} : a \in DOMAIN m}

\* The loop of shuffle_data over attr_to_cs: what the mapping m and the two
\* heaps hold after it.  deepcopy(old_constraint) is a new constraint object
\* with a new attribute object of its own.
shuffle_loop(m, cons, attrs, indices) ==
  LET S == Slots(m)
      order == CHOOSE f \in [1..Cardinality(S) -> S] :
                 \A i, j \in 1..Cardinality(S) : f[i] = f[j] => i = j
      step[i \in 0..Cardinality(S)] ==
        IF i = 0 THEN [m |-> m, cons |-> cons, attrs |-> attrs]
        ELSE LET st == step[i - 1]
                 attr == order[i][1]
                 cs == order[i][2]
                 old_constraint == st.m[attr][cs]
                 old_attribute == st.attrs[st.cons[old_constraint].attribute]
                 new_constraint == Len(st.cons) + 1
                 new_attribute == Len(st.attrs) + 1
             IN [m |-> [st.m EXCEPT ![attr][cs] = new_constraint],
                 cons |-> Append(st.cons, [attribute |-> new_attribute]),
                 attrs |-> Append(st.attrs,
                             set_values(old_attribute,
                               shuffled_values(old_attribute.values, indices)))]
  IN step[Cardinality(S)]

\* ------------------------------------------------ sort_pattern, as a call

SortInit ==
  /\ patterns = <<>>
  /\ sorted_out = <<>>
  /\ sort_pc = "input"
  /\ AggIdle /\ ThIdle /\ ShIdle /\ BtIdle

\* The caller builds the list of rows.
SortAddRow ==
  /\ sort_pc = "input"
  /\ Len(patterns) < MaxRows
  /\ \E r \in Rows : patterns' = Append(patterns, r)
  /\ UNCHANGED <<sorted_out, sort_pc, aggVars, thVars, shVars, btVars>>

\* sort_pattern(patterns)
SortCall ==
  /\ sort_pc = "input"
  /\ sorted_out' = sort_pattern(patterns)
  /\ sort_pc' = "done"
  /\ UNCHANGED <<patterns, aggVars, thVars, shVars, btVars>>

SortNext == SortAddRow \/ SortCall

SpecSort == SortInit /\ [][SortNext]_vars

\* How often row r occurs in the list xs.
Occurrences(xs, r) == Cardinality({i \in 1..Len(xs) : xs[i] = r})

\* ys holds the rows of xs, each as often as xs does.
SameRows(xs, ys) ==
  /\ Len(xs) = Len(ys)
  /\ \A i \in 1..Len(xs) : Occurrences(xs, xs[i]) = Occurrences(ys, xs[i])

\* C3, as claimed: sort_pattern returns the input rows with the item prefix
\* ascending as the primary key and the count descending as the secondary
\* key: a row with a lexicographically smaller prefix comes first whatever
\* its count, and the count decides only between rows of equal prefix.
C3_PrefixPrimary ==
  sort_pc = "done" =>
    /\ SameRows(patterns, sorted_out)
    /\ \A i, j \in 1..Len(sorted_out) :
         i < j =>
           /\ ~ListLess(prefix(sorted_out[j]), prefix(sorted_out[i]))
           /\ prefix(sorted_out[i]) = prefix(sorted_out[j])
                => last(sorted_out[i]) >= last(sorted_out[j])

\* C3, amended: sort_pattern returns the input rows with the count descending
\* as the primary key and the item prefix ascending lexicographically as the
\* secondary key: a row with a larger count comes first whatever its prefix,
\* and the prefix decides only between rows of equal count.
C3_CountPrimary ==
  sort_pc = "done" =>
    /\ SameRows(patterns, sorted_out)
    /\ \A i, j \in 1..Len(sorted_out) :
         i < j =>
           /\ last(sorted_out[i]) >= last(sorted_out[j])
           /\ last(sorted_out[i]) = last(sorted_out[j])
                => ~ListLess(prefix(sorted_out[j]), prefix(sorted_out[i]))

\* A call whose result puts a larger prefix before a smaller one because of
\* its count, and orders two rows of equal count by their prefixes.
C3_Witness ==
  /\ sort_pc = "done"
  /\ \E i, j \in 1..Len(sorted_out) :
       /\ i < j
       /\ ListLess(prefix(sorted_out[j]), prefix(sorted_out[i]))
       /\ last(sorted_out[i]) > last(sorted_out[j])
  /\ \E i, j \in 1..Len(sorted_out) :
       /\ i < j
       /\ last(sorted_out[i]) = last(sorted_out[j])
       /\ ListLess(prefix(sorted_out[i]), prefix(sorted_out[j]))
  /\ patterns # sorted_out

\* ------------------------------------------------ aggregate_patterns, as a call

TotalRows(batch) ==
  LET f[i \in 0..Len(batch)] == IF i = 0 THEN 0 ELSE f[i - 1] + Len(batch[i])
  IN f[Len(batch)]

AggInit ==
  /\ batch_patterns = <<>>
  /\ min_row_count = 0
  /\ chunk_counters = <<>>
  /\ aggregated = <<>>
  /\ agg_pc = "input"
  /\ SortIdle /\ ThIdle /\ ShIdle /\ BtIdle

\* One more chunk result, empty so far.
AggNewChunk ==
  /\ agg_pc = "input"
  /\ Len(batch_patterns) < MaxChunks
  /\ batch_patterns' = Append(batch_patterns, <<>>)
  /\ UNCHANGED <<min_row_count, chunk_counters, aggregated, agg_pc, sortVars, thVars, shVars, btVars>>

\* One more row in the latest chunk result.
AggAddRow ==
  /\ agg_pc = "input"
  /\ Len(batch_patterns) > 0
  /\ TotalRows(batch_patterns) < MaxRows
  /\ \E r \in ChunkRows :
       batch_patterns' =
         [batch_patterns EXCEPT ![Len(batch_patterns)] = Append(@, r)]
  /\ UNCHANGED <<min_row_count, chunk_counters, aggregated, agg_pc, sortVars, thVars, shVars, btVars>>

\* aggregate_patterns(batch_patterns, m)
AggCall ==
  /\ agg_pc = "input"
  /\ \E m \in 0..MaxMinRowCount :
       /\ min_row_count' = m
       /\ aggregated' = aggregate_patterns(batch_patterns, m)
  /\ chunk_counters' =
       [i \in 1..Len(batch_patterns) |-> list_to_counter(batch_patterns[i])]
  /\ agg_pc' = "done"
  /\ UNCHANGED <<batch_patterns, sortVars, thVars, shVars, btVars>>

AggNext == AggNewChunk \/ AggAddRow \/ AggCall

SpecAgg == AggInit /\ [][AggNext]_vars

\* The counts of the rows of one chunk result whose item prefix is k, added up.
RowSum(chunk, k) ==
  LET f[i \in 0..Len(chunk)] ==
        IF i = 0 THEN 0
        ELSE f[i - 1] + (IF prefix(chunk[i]) = k THEN last(chunk[i]) ELSE 0)
  IN f[Len(chunk)]

\* The counts of the rows of all chunk results whose item prefix is k, added up.
KeySum(batch, k) ==
  LET f[i \in 0..Len(batch)] ==
        IF i = 0 THEN 0 ELSE f[i - 1] + RowSum(batch[i], k)
  IN f[Len(batch)]

\* The item prefixes some chunk result lists.
SeenKeys(batch) ==
  {prefix(batch[i][j]) : <<i, j>> \in
     {<<i, j>> \in (1..Len(batch)) \X (1..MaxRows + 1) : j <= Len(batch[i])}}

\* Every chunk result lists every item prefix at most once.
NoDuplicateKeys(batch) ==
  \A i \in 1..Len(batch) : \A j, l \in 1..Len(batch[i]) :
    prefix(batch[i][j]) = prefix(batch[i][l]) => j = l

\* C2: when every chunk lists every pattern key at most once,
\* aggregate_patterns returns exactly one row for every key whose counts over
\* all chunks add up to at least min_row_count, that row carrying the sum,
\* and no row for any other key; chunks [[1,2,3]] and [[1,2,2]] give
\* [[1,2,5]] at threshold 4 and [] at threshold 6 (the two examples are
\* evaluated once, beside the call on no chunks).
C2_SumAndFilter ==
  /\ (agg_pc = "done" /\ NoDuplicateKeys(batch_patterns)) =>
       /\ \A i \in 1..Len(aggregated) :
            prefix(aggregated[i]) \in SeenKeys(batch_patterns)
       /\ \A k \in SeenKeys(batch_patterns) :
            LET at == {i \in 1..Len(aggregated) : prefix(aggregated[i]) = k}
            IN IF KeySum(batch_patterns, k) >= min_row_count
               THEN /\ Cardinality(at) = 1
                    /\ \A i \in at :
                         last(aggregated[i]) = KeySum(batch_patterns, k)
               ELSE at = {}
  /\ (agg_pc = "done" /\ batch_patterns = <<>>) =>
       /\ aggregate_patterns(<< << <<1, 2, 3>> >>, << <<1, 2, 2>> >> >>, 4)
            = << <<1, 2, 5>> >>
       /\ aggregate_patterns(<< << <<1, 2, 3>> >>, << <<1, 2, 2>> >> >>, 6)
            = <<>>

\* A call on two chunks that share a key, one key reaching the threshold by
\* its sum only and another key falling below it.
C2_Witness ==
  /\ agg_pc = "done"
  /\ NoDuplicateKeys(batch_patterns)
  /\ Len(batch_patterns) = 2
  /\ min_row_count > 0
  /\ \E k \in SeenKeys(batch_patterns) :
       /\ RowSum(batch_patterns[1], k) < min_row_count
       /\ RowSum(batch_patterns[2], k) < min_row_count
       /\ KeySum(batch_patterns, k) >= min_row_count
  /\ \E k \in SeenKeys(batch_patterns) :
       KeySum(batch_patterns, k) < min_row_count
  /\ Len(aggregated) = 1

\* C4, as claimed: list_to_counter adds up the counts of equal keys: for each
\* chunk result and each item prefix, the counter's value is the sum of the
\* counts of all rows with that prefix.
C4_DuplicateKeysSum ==
  agg_pc = "done" =>
    \A i \in 1..Len(batch_patterns) : \A k \in ChunkKeys :
      CounterGet(chunk_counters[i], k) = RowSum(batch_patterns[i], k)

\* The list xs rearranged by the permutation q of its indices.
Rearranged(xs, q) == [i \in 1..Len(xs) |-> xs[q[i]]]

\* C5: aggregate_patterns is independent of the order of the chunks: for
\* every permutation of the list of chunk results it returns the same rows
\* in the same positions.
C5_OrderIndependent ==
  agg_pc = "done" =>
    \A q \in IndexPermutations(Len(batch_patterns)) :
      aggregate_patterns(Rearranged(batch_patterns, q), min_row_count)
        = aggregated

\* A call on two different chunk results that share a key and list their
\* keys in different orders, returning more than one row.
C5_Witness ==
  /\ agg_pc = "done"
  /\ Len(batch_patterns) = 2
  /\ Len(batch_patterns[1]) = 2
  /\ Len(batch_patterns[2]) = 1
  /\ prefix(batch_patterns[1][2]) = prefix(batch_patterns[2][1])
  /\ prefix(batch_patterns[1][1]) # prefix(batch_patterns[2][1])
  /\ last(batch_patterns[1][2]) # last(batch_patterns[2][1])
  /\ Len(aggregated) = 2

\* ------------------------------------------------ the threshold functions, as calls

\* The min_frequency arguments: floats around (0, 1], ints around
\* 1..num_rows, and a value that is neither.
Floats == {PyFloat(k, Denom) : k \in (-1)..(Denom + 1)}
Factors == {PyFloat(k, Denom) : k \in (-1)..(2 * Denom)}
MinFrequencies ==
  Floats \cup {PyInt(k) : k \in (-1)..(MaxNumRows + 1)} \cup {NoneValue}

ThInit ==
  /\ th_op = "none"
  /\ th_args = <<>>
  /\ th_out = <<>>
  /\ SortIdle /\ AggIdle /\ ShIdle /\ BtIdle

\* validate_min_frequency(num_rows, min_frequency)
ThValidate ==
  /\ th_op = "none"
  /\ \E n \in 0..MaxNumRows, mf \in MinFrequencies :
       /\ th_op' = "validate_min_frequency"
       /\ th_args' = <<n, mf>>
       /\ th_out' = Raised(validate_min_frequency(n, mf), 0)
  /\ UNCHANGED <<sortVars, aggVars, shVars, btVars>>

\* validate_min_frequency_with_batch(num_rows, batch_size, min_frequency)
ThValidateBatch ==
  /\ th_op = "none"
  /\ \E n \in 0..MaxNumRows, b \in 1..MaxNumRows, mf \in MinFrequencies :
       /\ th_op' = "validate_min_frequency_with_batch"
       /\ th_args' = <<n, b, mf>>
       /\ th_out' = validate_min_frequency_with_batch(n, b, mf)
  /\ UNCHANGED <<sortVars, aggVars, shVars, btVars>>

\* update_min_frequency(num_rows, min_frequency, min_frequency_lb)
ThUpdate ==
  /\ th_op = "none"
  /\ \E n \in 1..MaxNumRows, mf \in MinFrequencies, lb \in Factors :
       /\ th_op' = "update_min_frequency"
       /\ th_args' = <<n, mf, lb>>
       /\ th_out' = update_min_frequency(n, mf, lb)
  /\ UNCHANGED <<sortVars, aggVars, shVars, btVars>>

ThNext == ThValidate \/ ThValidateBatch \/ ThUpdate

SpecThreshold == ThInit /\ [][ThNext]_vars

\* C8, as claimed: a float threshold that passes validate_min_frequency for
\* batch_size but fails it for the non-empty remainder chunk size
\* r = num_rows mod batch_size makes validate_min_frequency_with_batch raise a
\* ValueError naming r.
C8_RemainderRejected ==
  th_op = "validate_min_frequency_with_batch" =>
    LET n == th_args[1]
        b == th_args[2]
        mf == th_args[3]
        r == n % b
    IN (/\ mf.type = "float"
        /\ validate_min_frequency(b, mf) = "ok"
        /\ r >= 1
        /\ validate_min_frequency(r, mf) # "ok")
       => th_out = Raised("ValueError", r)

\* C8, amended: the same for a remainder chunk of more than one row (r > 1);
\* a remainder chunk of a single row is not validated.
C8_RemainderOverOneRejected ==
  th_op = "validate_min_frequency_with_batch" =>
    LET n == th_args[1]
        b == th_args[2]
        mf == th_args[3]
        r == n % b
    IN (/\ mf.type = "float"
        /\ validate_min_frequency(b, mf) = "ok"
        /\ r > 1
        /\ validate_min_frequency(r, mf) # "ok")
       => th_out = Raised("ValueError", r)

\* A call with a threshold valid for the batch size and invalid for a
\* remainder chunk of more than one row, rejected naming the remainder.
C8_Witness ==
  /\ th_op = "validate_min_frequency_with_batch"
  /\ th_args[3].type = "float"
  /\ validate_min_frequency(th_args[2], th_args[3]) = "ok"
  /\ th_args[1] % th_args[2] > 1
  /\ validate_min_frequency(th_args[1] % th_args[2], th_args[3]) # "ok"
  /\ th_out = Raised("ValueError", th_args[1] % th_args[2])

\* C9: for num_rows n >= 1, a float threshold t in (0, 1] and any factor f,
\* update_min_frequency returns a value >= 1/n: ceil(t), an int, for n = 1,
\* and the larger of t * f and 1/n for n > 1.
C9_AtLeastOneRow ==
  th_op = "update_min_frequency" =>
    LET n == th_args[1]
        t == th_args[2]
        f == th_args[3]
    IN (t.type = "float" /\ NumGt(t, PyFloat(0, 1)) /\ NumGeq(PyFloat(1, 1), t)) =>
         /\ NumGeq(th_out, PyFloat(1, n))
         /\ n = 1 => th_out = Ceil(t) /\ th_out.type = "int"
         /\ n > 1 =>
              /\ th_out.type = "float"
              /\ NumGeq(th_out, NumTimes(t, f))
              /\ NumEq(th_out, NumTimes(t, f)) \/ NumEq(th_out, PyFloat(1, n))

\* A call on a chunk of several rows whose factor would bring the threshold
\* below one row, answered by 1/n.
C9_Witness ==
  /\ th_op = "update_min_frequency"
  /\ th_args[1] > 1
  /\ th_args[2].type = "float"
  /\ NumGt(th_args[2], PyFloat(0, 1))
  /\ NumGeq(PyFloat(1, 1), th_args[2])
  /\ NumGt(th_args[3], PyFloat(0, 1))
  /\ NumGt(PyFloat(1, th_args[1]), NumTimes(th_args[2], th_args[3]))
  /\ th_out = PyFloat(1, th_args[1])

\* ------------------------------------------------ shuffle_data, as a call

\* The sequences and the per-sequence attribute values the inputs are built from.
SeqPool == {<<1>>, <<1, 2>>}
AttrValues == {<<10>>, <<20, 30>>}

\* The caller's objects before the call, for n sequences: no constraint, one
\* constraint, two constraints on one attribute (they share the attribute
\* object), or one constraint on each of two attributes.
Worlds(n) ==
  LET V == [1..n -> AttrValues]
  IN {[m |-> <<>>, cons |-> <<>>, attrs |-> <<>>]}
     \cup {[m |-> [price |-> [gap |-> 1]],
            cons |-> <<[attribute |-> 1]>>,
            attrs |-> <<[values |-> v]>>] : v \in V}
     \cup {[m |-> [price |-> [gap |-> 1, span |-> 2]],
            cons |-> <<[attribute |-> 1], [attribute |-> 1]>>,
            attrs |-> <<[values |-> v]>>] : v \in V}
     \cup {[m |-> [price |-> [gap |-> 1], time |-> [gap |-> 2]],
            cons |-> <<[attribute |-> 1], [attribute |-> 2]>>,
            attrs |-> <<[values |-> v[1]], [values |-> v[2]]>>] : v \in V \X V}

ShInit ==
  /\ \E n \in 0..MaxSeqs :
       /\ sequences \in [1..n -> SeqPool]
       /\ \E w \in Worlds(n) :
            /\ attr_to_cs = w.m
            /\ constraints = w.cons
            /\ attributes = w.attrs
  /\ sh_before = <<>>
  /\ sh_ret = <<>>
  /\ sh_pc = "input"
  /\ SortIdle /\ AggIdle /\ ThIdle /\ BtIdle

\* shuffle_data(sequences, attr_to_cs, seed): random.shuffle leaves some
\* permutation of the indices, fixed by the seed.  The loop assigns into the
\* mapping it was handed, and that mapping is what is returned.
ShCall ==
  /\ sh_pc = "input"
  /\ \E indices \in IndexPermutations(Len(sequences)) :
       LET after == shuffle_loop(attr_to_cs, constraints, attributes, indices)
       IN /\ attr_to_cs' = after.m
          /\ constraints' = after.cons
          /\ attributes' = after.attrs
          /\ sh_ret' = [sequences |-> shuffled_sequences(sequences, indices),
                        attr_to_cs |-> after.m]
  /\ sh_before' = [sequences |-> sequences, attr_to_cs |-> attr_to_cs,
                   constraints |-> constraints, attributes |-> attributes]
  /\ sh_pc' = "done"
  /\ UNCHANGED <<sequences, sortVars, aggVars, thVars, btVars>>

ShNext == ShCall

SpecShuffle == ShInit /\ [][ShNext]_vars

\* C6, as claimed: shuffle_data leaves its inputs unmodified: the caller's
\* list of sequences, the caller's mapping (every attr_to_cs[attr][cs] still
\* refers to the same constraint object) and every original constraint and
\* its value list are as before the call.
C6_InputsUnmodified ==
  sh_pc = "done" =>
    /\ sequences = sh_before.sequences
    /\ attr_to_cs = sh_before.attr_to_cs
    /\ \A c \in 1..Len(sh_before.constraints) :
         constraints[c] = sh_before.constraints[c]
    /\ \A a \in 1..Len(sh_before.attributes) :
         attributes[a] = sh_before.attributes[a]

\* The value list of the constraint object c.
ValuesOf(cons, attrs, c) == attrs[cons[c].attribute].values

\* C7: shuffle_data reorders by one permutation p of the indices: the
\* returned sequence at position k is the input sequence at p[k], and for
\* every attribute and constraint the returned constraint's value at k is
\* the original constraint's value at p[k]; every returned constraint has as
\* many values as there are sequences.
C7_OnePermutation ==
  sh_pc = "done" =>
    /\ Slots(sh_ret.attr_to_cs) = Slots(sh_before.attr_to_cs)
    /\ \E p \in IndexPermutations(Len(sh_before.sequences)) :
         /\ sh_ret.sequences
              = [k \in 1..Len(sh_before.sequences) |-> sh_before.sequences[p[k]]]
         /\ \A s \in Slots(sh_before.attr_to_cs) :
              LET new == ValuesOf(constraints, attributes,
                                  sh_ret.attr_to_cs[s[1]][s[2]])
                  old == ValuesOf(sh_before.constraints, sh_before.attributes,
                                  sh_before.attr_to_cs[s[1]][s[2]])
              IN /\ Len(new) = Len(sh_ret.sequences)
                 /\ \A k \in 1..Len(new) : new[k] = old[p[k]]

\* A call with constraints on two attributes whose sequences and values all
\* changed places.
C7_Witness ==
  /\ sh_pc = "done"
  /\ Len(sequences) = MaxSeqs
  /\ DOMAIN sh_ret.attr_to_cs = {"price", "time"}
  /\ sh_ret.sequences # sh_before.sequences
  /\ \A s \in Slots(sh_before.attr_to_cs) :
       ValuesOf(constraints, attributes, sh_ret.attr_to_cs[s[1]][s[2]])
         # ValuesOf(sh_before.constraints, sh_before.attributes,
                    sh_before.attr_to_cs[s[1]][s[2]])
  /\ ValuesOf(constraints, attributes, sh_ret.attr_to_cs["price"]["gap"])
       # ValuesOf(constraints, attributes, sh_ret.attr_to_cs["time"]["gap"])

\* ------------------------------------------------ mining in chunks

\* The sequences the dataset is built from and the factors the caller hands in.
DataPool == {<<1>>, <<2>>, <<1, 2>>}
LbFactors == {PyFloat(1, 5), PyFloat(1, 1), PyFloat(2, 1)}

\* is_subsequence(pattern, sequence): the items of the pattern occur in the
\* sequence in order, at strictly increasing positions.
is_subsequence(pattern, sequence) ==
  \E f \in [1..Len(pattern) -> 1..Len(sequence)] :
    /\ \A i, j \in 1..Len(pattern) : i < j => f[i] < f[j]
    /\ \A i \in 1..Len(pattern) : sequence[f[i]] = pattern[i]

\* The number of sequences of seqs the pattern occurs in.
Support(pattern, seqs) ==
  Cardinality({i \in 1..Len(seqs) : is_subsequence(pattern, seqs[i])})

\* The mining engine: one row for every pattern whose support in the chunk
\* reaches the threshold, a row count (int) or a share of the chunk (float).
mining_engine(seqs, threshold) ==
  LET required == IF threshold.type = "float"
                  THEN NumTimes(threshold, PyInt(Len(seqs)))
                  ELSE threshold
      rows == [i \in 1..Len(PatternList) |->
                 PatternList[i] \o <<Support(PatternList[i], seqs)>>]
      Frequent(r) == NumGeq(PyInt(last(r)), required)
  IN SelectSeq(rows, Frequent)

\* The chunks of the dataset cut after the positions in cuts.
split_chunks(data, cuts) ==
  LET chunk_of(i) == 1 + Cardinality({c \in cuts : c < i})
      first(j) == CHOOSE i \in 1..Len(data) :
                    chunk_of(i) = j /\ \A l \in 1..(i - 1) : chunk_of(l) < j
      size(j) == Cardinality({i \in 1..Len(data) : chunk_of(i) = j})
  IN [j \in 1..(Cardinality(cuts) + 1) |->
        SubSeq(data, first(j), first(j) + size(j) - 1)]

BtInit ==
  /\ bt_data = <<>>
  /\ bt_in = <<>>
  /\ bt_local = <<>>
  /\ bt_results = <<>>
  /\ bt_out = <<>>
  /\ bt_full = <<>>
  /\ bt_pc = "input"
  /\ SortIdle /\ AggIdle /\ ThIdle /\ ShIdle

\* One more sequence in the dataset.
BtAddSequence ==
  /\ bt_pc = "input"
  /\ Len(bt_data) < MaxData
  /\ \E s \in DataPool : bt_data' = Append(bt_data, s)
  /\ UNCHANGED <<bt_in, bt_local, bt_results, bt_out, bt_full, bt_pc,
                 sortVars, aggVars, thVars, shVars>>

\* The run over chunks: the dataset is split, every chunk is mined at the
\* threshold update_min_frequency gives for its rows, and the chunk results
\* are aggregated at the row count N; the whole dataset mined at N is kept
\* beside it.
BtRun ==
  /\ bt_pc = "input"
  /\ Len(bt_data) >= 1
  /\ \E cuts \in SUBSET (1..(Len(bt_data) - 1)), t \in Floats,
        f \in LbFactors, N \in 1..Len(bt_data) :
       /\ validate_min_frequency(Len(bt_data), t) = "ok"
       /\ \E chunks \in {split_chunks(bt_data, cuts)} :
          \E local \in {[j \in 1..Len(chunks) |->
                           update_min_frequency(Len(chunks[j]), t, f)]} :
          \E results \in {[j \in 1..Len(chunks) |->
                             mining_engine(chunks[j], local[j])]} :
            /\ bt_in' = [chunks |-> chunks, t |-> t, f |-> f, N |-> N]
            /\ bt_local' = local
            /\ bt_results' = results
            /\ bt_out' = aggregate_patterns(results, N)
            /\ bt_full' = sort_pattern(mining_engine(bt_data, PyInt(N)))
  /\ bt_pc' = "done"
  /\ UNCHANGED <<bt_data, sortVars, aggVars, thVars, shVars>>

BtNext == BtAddSequence \/ BtRun

SpecBatch == BtInit /\ [][BtNext]_vars

\* The rows of a list, as a set.
RowSet(rows) == {rows[i] : i \in 1..Len(rows)}

\* Every chunk of more than one row passes validate_min_frequency, as
\* validate_min_frequency_with_batch demands of the batch and the remainder.
ChunksValid ==
  \A j \in 1..Len(bt_in.chunks) :
    Len(bt_in.chunks[j]) > 1 =>
      validate_min_frequency(Len(bt_in.chunks[j]), bt_in.t) = "ok"

\* N is the row count the global threshold t stands for.
RowCountOfThreshold ==
  PyInt(bt_in.N) = Ceil(NumTimes(bt_in.t, PyInt(Len(bt_data))))

\* C1, as claimed: with every chunk mined at the local threshold
\* update_min_frequency computes, aggregate_patterns(chunk_results, N) returns
\* the same rows (keys and counts) as mining the whole dataset at N.  Stated
\* here for the most favourable case only: N the row count of t, a factor
\* that lowers the threshold, chunks that pass the validation.
C1_SameAsUnchunked ==
  (/\ bt_pc = "done"
   /\ RowCountOfThreshold
   /\ ChunksValid
   /\ NumGeq(PyFloat(1, 1), bt_in.f)) =>
    RowSet(bt_out) = RowSet(bt_full)

\* Every chunk of more than one row gets a local threshold of a single row:
\* t * f * chunk_rows <= 1.
SingleRowThresholds ==
  \A j \in 1..Len(bt_in.chunks) :
    Len(bt_in.chunks[j]) > 1 =>
      NumGeq(PyFloat(1, 1),
             NumTimes(NumTimes(bt_in.t, bt_in.f), PyInt(Len(bt_in.chunks[j]))))

\* C1, amended: aggregate_patterns(chunk_results, N) returns only patterns
\* that mining the whole dataset at N returns, each with a count that is at
\* most its count there; it returns exactly the same rows when
\* t * f * chunk_rows <= 1 for every chunk of more than one row.
C1_SubsetOfUnchunked ==
  bt_pc = "done" =>
    /\ \A i \in 1..Len(bt_out) : \E j \in 1..Len(bt_full) :
         /\ prefix(bt_full[j]) = prefix(bt_out[i])
         /\ last(bt_full[j]) >= last(bt_out[i])
    /\ SingleRowThresholds => bt_out = bt_full

\* A run over two chunks that loses part of a pattern's count: the pattern
\* is returned for the whole dataset with a larger count than aggregated.
C1_Witness ==
  /\ bt_pc = "done"
  /\ Len(bt_in.chunks) = 2
  /\ ~SingleRowThresholds
  /\ \E i \in 1..Len(bt_out) : \E j \in 1..Len(bt_full) :
       /\ prefix(bt_full[j]) = prefix(bt_out[i])
       /\ last(bt_full[j]) > last(bt_out[i])

\* The pattern is frequent in chunk j at that chunk's local threshold:
\* its support there is at least update_min_frequency(rows, t, f) * rows.
LocallyFrequent(k, j) ==
  /\ Support(k, bt_in.chunks[j]) >= 1
  /\ NumGeq(PyInt(Support(k, bt_in.chunks[j])),
            NumTimes(bt_local[j], PyInt(Len(bt_in.chunks[j]))))

\* The pattern's support over the whole dataset is at least t * (total rows).
GloballyFrequent(k) ==
  NumGeq(PyInt(Support(k, bt_data)), NumTimes(bt_in.t, PyInt(Len(bt_data))))

\* C10, as claimed: for every positive factor f, a pattern whose support over
\* the whole dataset is >= t * (total rows) is locally frequent in at least
\* one chunk it occurs in.
C10_SoundForEveryFactor ==
  (bt_pc = "done" /\ ChunksValid) =>
    \A k \in PatternKeys :
      GloballyFrequent(k) => \E j \in 1..Len(bt_in.chunks) : LocallyFrequent(k, j)

\* C10, amended: the same for every factor f with 0 < f <= 1.
C10_SoundForFactorAtMostOne ==
  (bt_pc = "done" /\ NumGeq(PyFloat(1, 1), bt_in.f)) =>
    \A k \in PatternKeys :
      GloballyFrequent(k) => \E j \in 1..Len(bt_in.chunks) : LocallyFrequent(k, j)

\* A run with a factor of at most one in which a globally frequent pattern
\* is locally frequent in one chunk and occurs, not frequent, in another.
C10_Witness ==
  /\ bt_pc = "done"
  /\ NumGeq(PyFloat(1, 1), bt_in.f)
  /\ \E k \in PatternKeys :
       /\ GloballyFrequent(k)
       /\ \E j \in 1..Len(bt_in.chunks) : LocallyFrequent(k, j)
       /\ \E j \in 1..Len(bt_in.chunks) :
            Support(k, bt_in.chunks[j]) >= 1 /\ ~LocallyFrequent(k, j)

====
